---- MODULE Spec2Model ----
(***************************************************************************)
(* Model of src/app.py, the Streamlit sales-report application: one script *)
(* run (rerun) per operator interaction, the session state kept between    *)
(* runs, and the calls made to the extraction host (Gemini) and to the     *)
(* record store (Kintone).                                                 *)
(*                                                                         *)
(* Text is a sequence of tokens.  A token is one character or one atomic   *)
(* piece of text; the tokens "SP", "NL", "TAB" are the whitespace          *)
(* characters, "FENCE" is the three-backtick marker, "json" the tag that   *)
(* may follow it, "no" / "sama" / "touten" are the Japanese particles the  *)
(* contact header is built from, and MEMO_MARK is the section marker.      *)
(* The Japanese field codes of the record are written by their meaning:    *)
(*   meeting_summary, current_issues, competitor_info, next_proposal       *)
(*   (the four narrative fields of lines 372-375) and client_id,           *)
(*   sales_activity, staff, action_date, next_date, next_sales_activity    *)
(*   (the six fields of lines 646-651).                                    *)
(***************************************************************************)
EXTENDS Naturals, Sequences, FiniteSets, TLC

VARIABLES
    kintone_configured,  \* KINTONE_SUBDOMAIN, KINTONE_APP_ID, KINTONE_API_TOKEN are all set
    client_results,      \* st.session_state.client_results
    selected_client,     \* st.session_state.selected_client
    form,                \* widgets: sales_activity, staff, action_date, next_date, next_sales_activity
    contact_persons,     \* st.session_state.contact_persons
    uploaded_file,       \* the file uploader widget
    text_input,          \* the text memo widget
    extracted_data,      \* st.session_state.extracted_data
    uploaded_file_path,  \* st.session_state.uploaded_file_path
    uploaded_file_name,  \* st.session_state.uploaded_file_name
    text_content,        \* st.session_state.text_content
    trigger,             \* what started the last script run
    shown,               \* the messages the last script run displayed
    calls,               \* the downstream calls of the last script run, in order
    response_text,       \* the raw text the extraction host returned in the last run
    json_str,            \* the text parse_json_response handed to json.loads in the last run
    kintone_rows,        \* rows of the record store created by this session
    submit_clicks        \* submit triggers of this session

vars == <<kintone_configured, client_results, selected_client, form, contact_persons,
          uploaded_file, text_input, extracted_data, uploaded_file_path,
          uploaded_file_name, text_content, trigger, shown, calls, response_text, json_str,
          kintone_rows, submit_clicks>>

\* ------------------------------------------------------------------ bounds

\* Longest raw model output enumerated for the response parser.
MaxRawLen == 5

\* Longest contact-person list the operator builds.
MaxContacts == 2

\* Submit triggers followed in one session.
MaxSubmits == 2

\* the longest text the operator types into a text area of section 4
MaxTextLen == 4

\* ------------------------------------------------------------------ text

None == <<"None">>

\* no file in the uploader
NoFile == [name |-> None, content |-> None]

\* no client selected
NoClient == [id |-> None, record_id |-> None, name |-> None]

Whitespace == {"SP", "NL", "TAB", "CR"}

RECURSIVE lstrip(_)
lstrip(s) ==
    IF s # <<>> /\ Head(s) \in Whitespace THEN lstrip(Tail(s)) ELSE s

RECURSIVE rstrip(_)
rstrip(s) ==
    IF s # <<>> /\ s[Len(s)] \in Whitespace THEN rstrip(SubSeq(s, 1, Len(s) - 1)) ELSE s

\* str.strip()
strip(s) == rstrip(lstrip(s))

\* str.find(sep) + 1: the first position where sep occurs in s, 0 when it does not
find(s, sep) ==
    LET hits == {i \in 1..(Len(s) - Len(sep) + 1) : SubSeq(s, i, i + Len(sep) - 1) = sep}
    IN  IF hits = {} THEN 0 ELSE CHOOSE i \in hits : \A j \in hits : i <= j

\* sep in s
contains(s, sep) == find(s, sep) # 0

\* str.split(sep)
RECURSIVE split(_, _)
split(s, sep) ==
    LET i == find(s, sep)
    IN  IF i = 0
        THEN <<s>>
        ELSE <<SubSeq(s, 1, i - 1)>> \o split(SubSeq(s, i + Len(sep), Len(s)), sep)

\* sep.join(parts)
RECURSIVE join(_, _)
join(sep, parts) ==
    IF parts = <<>> THEN <<>>
    ELSE IF Len(parts) = 1 THEN parts[1]
    ELSE parts[1] \o sep \o join(sep, Tail(parts))

\* ------------------------------------------------------------------ dict

\* A dict is a function from its keys to text.
EmptyDict == [k \in {} |-> <<>>]

\* None where a dict is expected, and a JSON array
NoData == ("None" :> <<>>)

ListValue == ("list" :> <<>>)

\* d.get(k, default)
get(d, k, default) == IF k \in DOMAIN d THEN d[k] ELSE default

\* d[k] = v
put(d, k, v) == [x \in (DOMAIN d) \cup {k} |-> IF x = k THEN v ELSE d[x]]

NarrativeKeys == {"meeting_summary", "current_issues", "competitor_info", "next_proposal"}

OperatorKeys == {"client_id", "sales_activity", "staff", "action_date", "next_date",
                 "next_sales_activity"}

\* ------------------------------------------------------------------ response parser

FENCE == "FENCE"

JSON_TAG == "json"

IndexError == <<"IndexError">>

JSONDecodeError == <<"JSONDecodeError">>

\* The JSON documents the extraction host is modelled to produce, each one token:
\* a full record, a record that lacks two narrative fields and carries fields the
\* operator also provides and a field nobody asked for, a record without the meeting
\* summary, the empty object, and an array.
JsonObjects == {"OBJ_FULL", "OBJ_PART", "OBJ_NOSUMMARY", "OBJ_EMPTY"}

JsonDocuments == JsonObjects \cup {"ARRAY"}

JsonValue(tok) ==
    CASE tok = "OBJ_FULL" ->
           ("meeting_summary" :> <<"quote", "SP", "request">>) @@
           ("current_issues" :> <<"staffing">>) @@
           ("competitor_info" :> <<>>) @@
           ("next_proposal" :> <<"send", "quote">>)
      [] tok = "OBJ_PART" ->
           ("meeting_summary" :> <<"first", "visit">>) @@
           ("next_proposal" :> <<"call">>) @@
           ("staff" :> <<"AI", "staff">>) @@
           ("client_id" :> <<"AI", "client">>) @@
           ("action_date" :> <<"yesterday">>) @@
           ("date" :> <<"2", "0", "2", "5">>)
      [] tok = "OBJ_NOSUMMARY" ->
           ("current_issues" :> <<"budget">>)
      [] tok = "OBJ_EMPTY" -> EmptyDict
      [] OTHER -> ListValue

\* json.loads(text): surrounding whitespace is skipped, one document is read,
\* anything else in the text is a JSONDecodeError
json_loads(text) ==
    LET body == strip(text)
    IN  IF Len(body) = 1 /\ body[1] \in JsonDocuments
        THEN [ok |-> TRUE, value |-> JsonValue(body[1])]
        ELSE [ok |-> FALSE, value |-> JSONDecodeError]

\* seq[i] of a Python list, 0-based, raising IndexError past the end
item(seq, i) == IF i + 1 <= Len(seq) THEN seq[i + 1] ELSE IndexError

\* the selection with an opening marker that is not closed taken for an IndexError
json_str_of_strict(text) ==
    IF contains(text, <<FENCE, JSON_TAG>>)
    THEN LET rest == item(split(text, <<FENCE, JSON_TAG>>), 1)
         IN  IF rest = IndexError \/ ~contains(rest, <<FENCE>>) THEN IndexError
             ELSE strip(item(split(rest, <<FENCE>>), 0))
    ELSE IF contains(text, <<FENCE>>)
    THEN LET rest == item(split(text, <<FENCE>>), 1)
         IN  IF rest = IndexError \/ ~contains(rest, <<FENCE>>) THEN IndexError
             ELSE strip(item(split(rest, <<FENCE>>), 0))
    ELSE strip(text)

\* the selection with the two fence tests in the other order
json_str_of_any_fence_first(text) ==
    IF contains(text, <<FENCE>>)
    THEN LET rest == item(split(text, <<FENCE>>), 1)
         IN  IF rest = IndexError THEN IndexError
             ELSE strip(item(split(rest, <<FENCE>>), 0))
    ELSE IF contains(text, <<FENCE, JSON_TAG>>)
    THEN LET rest == item(split(text, <<FENCE, JSON_TAG>>), 1)
         IN  IF rest = IndexError THEN IndexError
             ELSE strip(item(split(rest, <<FENCE>>), 0))
    ELSE strip(text)

\* lines 224-229: the text handed to json.loads, or IndexError
json_str_of(text) ==
    IF contains(text, <<FENCE, JSON_TAG>>)
    THEN LET rest == item(split(text, <<FENCE, JSON_TAG>>), 1)
         IN  IF rest = IndexError THEN IndexError
             ELSE strip(item(split(rest, <<FENCE>>), 0))
    ELSE IF contains(text, <<FENCE>>)
    THEN LET rest == item(split(text, <<FENCE>>), 1)
         IN  IF rest = IndexError THEN IndexError
             ELSE strip(item(split(rest, <<FENCE>>), 0))
    ELSE strip(text)

\* parse_json_response: the parsed value, or None after st.error and st.code(raw)
parse_json_response(text) ==
    LET selected == json_str_of(text)
    IN  IF selected = IndexError
        THEN [value |-> NoData, reported |-> TRUE, json_str |-> None]
        ELSE IF ~json_loads(selected).ok
        THEN [value |-> NoData, reported |-> TRUE, json_str |-> selected]
        ELSE [value |-> json_loads(selected).value, reported |-> FALSE, json_str |-> selected]

\* ------------------------------------------------------------------ master data

\* SALES_ACTIVITY_OPTIONS (two of the twelve)
SALES_ACTIVITY_OPTIONS == <<<<"call_mail">>, <<"first_visit">>>>

\* STAFF_OPTIONS (two of the nine)
STAFF_OPTIONS == <<<<"Mizuno">>, <<"Sugiyama">>>>

\* date.today() and one other day the operator may pick
Dates == {<<2026, 11, 1>>, <<2026, 3, 5>>}

Digits == <<"0", "1", "2", "3", "4", "5", "6", "7", "8", "9">>

digit(n) == Digits[n + 1]

\* d.strftime("%Y-%m-%d")
strftime(d) ==
    <<digit(d[1] \div 1000), digit((d[1] \div 100) % 10), digit((d[1] \div 10) % 10),
      digit(d[1] % 10), "-", digit(d[2] \div 10), digit(d[2] % 10), "-",
      digit(d[3] \div 10), digit(d[3] % 10)>>

\* The rows of the client master the record store answers a search with; the second
\* has no client-id field.
RemoteClients ==
    <<[rid |-> <<"1">>, client_id |-> <<"K", "1">>, name |-> <<"ABC">>],
      [rid |-> <<"2">>, client_id |-> None, name |-> <<"XYZ">>]>>

RemoteAnswers == {<<>>, <<RemoteClients[1]>>, RemoteClients}

\* lines 137-144: one hit of search_clients
client_of(rec) ==
    [id |-> IF rec.client_id # None THEN rec.client_id ELSE rec.rid,
     record_id |-> rec.rid,
     name |-> IF rec.name # None THEN rec.name ELSE <<"unknown">>]

\* ------------------------------------------------------------------ messages

Warnings == {"warn_no_client", "warn_no_input", "warn_upload"}

Errors == {"err_json", "exception", "err_config", "err_http", "err_network", "err_search"}

Successes == {"success_extract", "success_submit"}

\* ------------------------------------------------------------------ input normalizer

AUDIO_EXTS == {<<"mp3">>, <<"wav">>, <<"m4a">>, <<"webm">>}

\* "\n\n--- (additional memo) ---\n"
MEMO_MARK == <<"NL", "NL", "--- memo ---", "NL">>

\* str.lower() on the tokens of a file name
lower(s) == [i \in 1..Len(s) |-> IF s[i] = "MP3" THEN "mp3" ELSE s[i]]

\* uploaded_file.name.lower().split(".")[-1]
file_ext(name) ==
    LET parts == split(lower(name), <<".">>) IN parts[Len(parts)]

\* SAVED_AUDIO_DIR / f"{timestamp}_{name}"
saved_path(name) == <<"saved_audio", "/", "TIMESTAMP", "_">> \o name

\* lines 585-605: is_audio, saved_file_path, file_content_for_ai and the file written
normalize(file) ==
    IF file = NoFile
    THEN [is_audio |-> FALSE, saved_file_path |-> None, file_content_for_ai |-> <<>>,
          calls |-> <<>>]
    ELSE IF file_ext(file.name) \in AUDIO_EXTS
    THEN [is_audio |-> TRUE, saved_file_path |-> saved_path(file.name),
          file_content_for_ai |-> <<>>,
          calls |-> <<<<"save_file", saved_path(file.name), file.content, "ok">>>>]
    ELSE IF file_ext(file.name) = <<"txt">>
    THEN [is_audio |-> FALSE, saved_file_path |-> saved_path(file.name),
          file_content_for_ai |-> file.content,
          calls |-> <<<<"save_file", saved_path(file.name), file.content, "ok">>>>]
    ELSE [is_audio |-> FALSE, saved_file_path |-> None, file_content_for_ai |-> <<>>,
          calls |-> <<>>]

\* lines 617-624
combined_text(file_content_for_ai, text) ==
    LET first == IF file_content_for_ai # <<>> THEN file_content_for_ai ELSE <<>>
    IN  IF text # <<>>
        THEN IF first # <<>> THEN first \o MEMO_MARK \o text ELSE text
        ELSE first

\* lines 608-627: the process_* function the run calls with its arguments, "none" when
\* it calls none
extraction_request(n, text) ==
    IF n.is_audio /\ n.saved_file_path # None
    THEN IF text # <<>>
         THEN [fn |-> "process_audio_and_text", path |-> n.saved_file_path, text |-> text]
         ELSE [fn |-> "process_audio_only", path |-> n.saved_file_path, text |-> None]
    ELSE IF combined_text(n.file_content_for_ai, text) # <<>>
         THEN [fn |-> "process_text_only", path |-> None,
               text |-> combined_text(n.file_content_for_ai, text)]
         ELSE [fn |-> "none", path |-> None, text |-> None]

\* ------------------------------------------------------------------ extraction client

\* What the extraction host does with one request: the media registration
\* (genai.upload_file) and the generation call each succeed or raise, and a generation
\* that succeeds returns a raw text.
HostOutcomes(req, responses) ==
    IF req.fn = "none" THEN {[register |-> "skip", response |-> None]}
    ELSE IF req.fn = "process_text_only"
    THEN {[register |-> "skip", response |-> r] : r \in responses \cup {None}}
    ELSE {[register |-> "fail", response |-> None]}
         \cup {[register |-> "ok", response |-> r] : r \in responses \cup {None}}

\* lines 238-284: process_audio_only, process_text_only, process_audio_and_text.
\* raised: the call raised; value: what it returned; reported: st.error was shown.
\* Each call is <<what, first argument, second argument, how it ended>>.
process(req, out) ==
    LET enter == <<<<req.fn, req.path, req.text, "called">>>>
        upload == IF req.fn \in {"process_audio_only", "process_audio_and_text"}
                  THEN <<<<"genai.upload_file", req.path, <<>>, out.register>>>>
                  ELSE <<>>
        generate == <<<<"generate_content", req.path, req.text,
                        IF out.response = None THEN "fail" ELSE "ok">>>>
    IN  IF req.fn = "none"
        THEN [raised |-> FALSE, calls |-> <<>>, response |-> None,
              value |-> NoData, reported |-> FALSE, json_str |-> None]
        ELSE IF out.register = "fail"
        THEN [raised |-> TRUE, calls |-> enter \o upload, response |-> None,
              value |-> NoData, reported |-> FALSE, json_str |-> None]
        ELSE IF out.response = None
        THEN [raised |-> TRUE, calls |-> enter \o upload \o generate, response |-> None,
              value |-> NoData, reported |-> FALSE, json_str |-> None]
        ELSE [raised |-> FALSE, calls |-> enter \o upload \o generate,
              response |-> out.response,
              value |-> parse_json_response(out.response).value,
              reported |-> parse_json_response(out.response).reported,
              json_str |-> parse_json_response(out.response).json_str]

\* ------------------------------------------------------------------ field reconciler

\* lines 633-638: the line one contact contributes, as a sequence of at most one line
contact_line(contact) ==
    LET dept == strip(contact.department)
        name == strip(contact.name)
    IN  IF dept # <<>> /\ name # <<>> THEN <<dept \o <<"no">> \o name \o <<"sama">>>>
        ELSE IF name # <<>> THEN <<name \o <<"sama">>>>
        ELSE <<>>

\* lines 631-638
RECURSIVE contact_lines(_)
contact_lines(contacts) ==
    IF contacts = <<>> THEN <<>>
    ELSE contact_line(Head(contacts)) \o contact_lines(Tail(contacts))

\* the header put in the place of the meeting summary
with_contact_header_replacing(data, contacts) ==
    IF contact_lines(contacts) # <<>>
    THEN put(data, "meeting_summary", join(<<"touten">>, contact_lines(contacts)))
    ELSE data

\* lines 640-643
with_contact_header(data, contacts) ==
    IF contact_lines(contacts) # <<>>
    THEN put(data, "meeting_summary",
             join(<<"touten">>, contact_lines(contacts)) \o <<"NL">>
                 \o get(data, "meeting_summary", <<>>))
    ELSE data

\* the operator's fields filling only the keys the extraction did not produce
with_operator_fields_keeping_ai(data, client, f) ==
    LET fill(d, k, v) == IF k \in DOMAIN d THEN d ELSE put(d, k, v)
    IN  fill(fill(fill(fill(fill(fill(data,
            "client_id", client.id),
            "sales_activity", f.sales_activity),
            "staff", f.staff),
            "action_date", strftime(f.action_date)),
            "next_date", strftime(f.next_date)),
            "next_sales_activity", f.next_sales_activity)

\* lines 646-651
with_operator_fields(data, client, f) ==
    put(put(put(put(put(put(data,
        "client_id", client.id),
        "sales_activity", f.sales_activity),
        "staff", f.staff),
        "action_date", strftime(f.action_date)),
        "next_date", strftime(f.next_date)),
        "next_sales_activity", f.next_sales_activity)

\* lines 629-651
reconcile(data, contacts, client, f) ==
    with_operator_fields(with_contact_header(data, contacts), client, f)

\* section 4 with the six read-only fields written back from the widgets above them
section4_refreshing(data) ==
    with_operator_fields(
        put(put(put(put(data,
            "meeting_summary", get(data, "meeting_summary", <<>>)),
            "current_issues", get(data, "current_issues", <<>>)),
            "competitor_info", get(data, "competitor_info", <<>>)),
            "next_proposal", get(data, "next_proposal", <<>>)),
        selected_client, form)

\* lines 686-710: the four text areas, each showing data.get(key, "") and written back
section4(data) ==
    put(put(put(put(data,
        "meeting_summary", get(data, "meeting_summary", <<>>)),
        "current_issues", get(data, "current_issues", <<>>)),
        "competitor_info", get(data, "competitor_info", <<>>)),
        "next_proposal", get(data, "next_proposal", <<>>))

\* a value Python takes for true in "if extracted_data:"
truthy(value) == DOMAIN value # {} /\ DOMAIN value # DOMAIN NoData

is_dict(value) == DOMAIN value # DOMAIN NoData /\ DOMAIN value # DOMAIN ListValue

\* line 665: a record is held and section 4 is drawn
holds_record == truthy(extracted_data)

\* what section 4 leaves in st.session_state.extracted_data at the end of a run
after_section4(data) == IF truthy(data) THEN section4(data) ELSE data

\* ------------------------------------------------------------------ record submitter

\* STAFF_CODE_MAP (two of the nine)
STAFF_CODE_MAP ==
    (<<"Mizuno">> :> <<"mizuno.k">>) @@ (<<"Sugiyama">> :> <<"sugiyama.t">>)

\* the characters of [\x00-\x08\x0b\x0c\x0e-\x1f\x7f] (six of them)
ControlChars == {"NUL", "BS", "VT", "FF", "ESC", "DEL"}

\* sanitize_text with the tab among the characters it removes
sanitize_text_dropping_tabs(text) ==
    IF text = <<>> THEN <<>>
    ELSE strip(SelectSeq(text, LAMBDA c : c \notin ControlChars \cup {"TAB"}))

\* lines 312-320: sanitize_text
sanitize_text(text) ==
    IF text = <<>> THEN <<>>
    ELSE strip(SelectSeq(text, LAMBDA c : c \notin ControlChars))

\* lines 364-365: the user code of the staff field, empty for a name not in the map
staff_code(data) ==
    IF get(data, "staff", <<>>) \in DOMAIN STAFF_CODE_MAP
    THEN STAFF_CODE_MAP[get(data, "staff", <<>>)]
    ELSE <<>>

\* the payload carrying every key of the held record
payload_record_of_every_key(data, file_keys) ==
    LET record == [k \in DOMAIN data |-> IF k = "staff" THEN <<data[k]>> ELSE data[k]]
    IN  IF file_keys # None /\ file_keys # <<>>
        THEN record @@ ("attachment_0" :> file_keys)
        ELSE record

\* lines 367-382: the record of the payload; file_keys is None or a list of keys
payload_record(data, file_keys) ==
    LET record ==
            ("client_id" :> get(data, "client_id", <<>>)) @@
            ("sales_activity" :> sanitize_text(get(data, "sales_activity", <<>>))) @@
            ("action_date" :> sanitize_text(get(data, "action_date", <<>>))) @@
            ("staff" :> IF staff_code(data) # <<>> THEN <<staff_code(data)>> ELSE <<>>) @@
            ("meeting_summary" :> sanitize_text(get(data, "meeting_summary", <<>>))) @@
            ("current_issues" :> sanitize_text(get(data, "current_issues", <<>>))) @@
            ("competitor_info" :> sanitize_text(get(data, "competitor_info", <<>>))) @@
            ("next_proposal" :> sanitize_text(get(data, "next_proposal", <<>>))) @@
            ("next_date" :> sanitize_text(get(data, "next_date", <<>>))) @@
            ("next_sales_activity" :> sanitize_text(get(data, "next_sales_activity", <<>>)))
    IN  IF file_keys # None /\ file_keys # <<>>
        THEN record @@ ("attachment_0" :> file_keys)
        ELSE record

\* upload_file_to_kintone with the except branch showing nothing
upload_file_to_kintone_silent(configured, name, result) ==
    IF ~configured
    THEN [file_key |-> <<>>, calls |-> <<>>, shown |-> {}]
    ELSE [file_key |-> IF result = "ok" THEN <<"fileKey">> \o name ELSE <<>>,
          calls |-> <<<<"POST file", name, <<>>, result>>>>, shown |-> {}]

\* lines 323-341: upload_file_to_kintone; result: what POST /file did
upload_file_to_kintone(configured, name, result) ==
    IF ~configured
    THEN [file_key |-> <<>>, calls |-> <<>>, shown |-> {}]
    ELSE IF result = "ok"
    THEN [file_key |-> <<"fileKey">> \o name,
          calls |-> <<<<"POST file", name, <<>>, result>>>>, shown |-> {}]
    ELSE [file_key |-> <<>>,
          calls |-> <<<<"POST file", name, <<>>, result>>>>, shown |-> {"warn_upload"}]

\* What POST /record can do: answer 2xx, answer non-2xx, fail before the store took
\* the row, or fail after the store took it (the answer is lost).
PostOutcomes == {"ok", "http_error", "network_error", "lost_answer"}

\* the store created a row
row_created(result) == result \in {"ok", "lost_answer"}

\* lines 393-410: the message upload_to_kintone shows for what the POST did
post_message(result) ==
    IF result = "ok" THEN "success_submit"
    ELSE IF result = "http_error" THEN "err_http"
    ELSE "err_network"

\* upload_to_kintone posting a second time when the first POST raised
upload_to_kintone_retrying(configured, data, file_keys, result) ==
    IF ~configured
    THEN [ok |-> FALSE, calls |-> <<>>, shown |-> {"err_config"}, rows |-> 0]
    ELSE [ok |-> result = "ok",
          calls |-> IF result = "ok"
                    THEN <<<<"POST record", payload_record(data, file_keys), file_keys, result>>>>
                    ELSE <<<<"POST record", payload_record(data, file_keys), file_keys, result>>,
                           <<"POST record", payload_record(data, file_keys), file_keys, result>>>>,
          shown |-> {post_message(result)},
          rows |-> IF result = "ok" THEN 1 ELSE IF row_created(result) THEN 2 ELSE 0]

\* lines 344-410: upload_to_kintone; result: what POST /record did
upload_to_kintone(configured, data, file_keys, result) ==
    IF ~configured
    THEN [ok |-> FALSE, calls |-> <<>>, shown |-> {"err_config"}, rows |-> 0]
    ELSE [ok |-> result = "ok",
          calls |-> <<<<"POST record", payload_record(data, file_keys), file_keys, result>>>>,
          shown |-> {post_message(result)},
          rows |-> IF row_created(result) THEN 1 ELSE 0]

\* lines 722-745: the uploads of one submit: the saved file when there is one, else
\* the text memo as a file; up: what POST /file did
attachments(configured, file_path, file_name, memo, up) ==
    LET a == IF file_path # None /\ file_name # None
             THEN upload_file_to_kintone(configured, file_name, up)
             ELSE [file_key |-> <<>>, calls |-> <<>>, shown |-> {}]
        b == IF memo # None /\ memo # <<>> /\ file_path = None
             THEN upload_file_to_kintone(configured, <<"memo", "_", "TIMESTAMP", ".", "txt">>, up)
             ELSE [file_key |-> <<>>, calls |-> <<>>, shown |-> {}]
    IN  [file_keys |-> (IF a.file_key # <<>> THEN <<a.file_key>> ELSE <<>>)
                       \o (IF b.file_key # <<>> THEN <<b.file_key>> ELSE <<>>),
         calls |-> a.calls \o b.calls,
         shown |-> a.shown \cup b.shown]

\* ------------------------------------------------------------------ the operator's inputs

Keywords == {<<>>, <<"SP">>, <<"ABC">>}

FormChoices ==
    {[sales_activity |-> SALES_ACTIVITY_OPTIONS[1], staff |-> STAFF_OPTIONS[1],
      action_date |-> <<2026, 11, 1>>, next_date |-> <<2026, 11, 1>>,
      next_sales_activity |-> SALES_ACTIVITY_OPTIONS[1]],
     [sales_activity |-> SALES_ACTIVITY_OPTIONS[2], staff |-> STAFF_OPTIONS[2],
      action_date |-> <<2026, 3, 5>>, next_date |-> <<2026, 11, 1>>,
      next_sales_activity |-> SALES_ACTIVITY_OPTIONS[1]],
     [sales_activity |-> SALES_ACTIVITY_OPTIONS[1], staff |-> STAFF_OPTIONS[2],
      action_date |-> <<2026, 11, 1>>, next_date |-> <<2026, 3, 5>>,
      next_sales_activity |-> SALES_ACTIVITY_OPTIONS[2]]}

AudioFile == [name |-> <<"visit", ".", "MP3">>, content |-> <<"audio">>]

TextFile(content) == [name |-> <<"notes", ".", "txt">>, content |-> content]

Uploads == {NoFile, AudioFile, TextFile(<<>>), TextFile(<<"SP">>), TextFile(<<"visited">>)}

Texts == {<<>>, <<"SP">>, <<"memo">>}

Departments == {<<>>, <<"soumu">>}

Names == {<<>>, <<"Arita">>}

EditTexts == {<<"edited">>}

\* the raw texts the extraction host answers with
Responses ==
    {<<FENCE, JSON_TAG, "NL", "OBJ_FULL", "NL", FENCE>>,
     <<"OBJ_PART">>,
     <<"OBJ_EMPTY">>,
     <<"sorry">>}

\* ------------------------------------------------------------------ state machine

Init ==
    /\ kintone_configured \in BOOLEAN
    /\ client_results = <<>>
    /\ selected_client = NoClient
    /\ form = [sales_activity |-> SALES_ACTIVITY_OPTIONS[1], staff |-> STAFF_OPTIONS[1],
               action_date |-> <<2026, 11, 1>>, next_date |-> <<2026, 11, 1>>,
               next_sales_activity |-> SALES_ACTIVITY_OPTIONS[1]]
    /\ contact_persons = <<[department |-> <<>>, name |-> <<>>]>>
    /\ uploaded_file = NoFile
    /\ text_input = <<>>
    /\ extracted_data = NoData
    /\ uploaded_file_path = None
    /\ uploaded_file_name = None
    /\ text_content = None
    /\ trigger = "start"
    /\ shown = {}
    /\ calls = <<>>
    /\ response_text = None
    /\ json_str = None
    /\ kintone_rows = 0
    /\ submit_clicks = 0

Session == <<extracted_data, uploaded_file_path, uploaded_file_name, text_content>>

Store == <<kintone_rows, submit_clicks>>

Widgets == <<form, contact_persons, uploaded_file, text_input>>

Clients == <<client_results, selected_client>>

\* lines 458-463: the select box over the results; it keeps its choice while the
\* options stay the same and shows the first option when they change
selected_after(results) ==
    IF results = <<>> THEN selected_client
    ELSE IF results = client_results /\ selected_client # NoClient THEN selected_client
    ELSE results[1]

\* a run that ends at the bottom of the script with nothing but the widgets changed
QuietRun(what) ==
    /\ trigger' = what
    /\ shown' = {}
    /\ calls' = <<>>
    /\ response_text' = None
    /\ json_str' = None
    /\ extracted_data' = after_section4(extracted_data)
    /\ UNCHANGED <<kintone_configured, uploaded_file_path, uploaded_file_name,
                   text_content, Store>>

\* lines 107-147: search_clients; answer: what GET /records did
search_clients(keyword, answer) ==
    IF answer.status # "ok"
    THEN [results |-> <<>>, shown |-> {"err_search"}]
    ELSE [results |-> [i \in 1..Len(answer.records) |-> client_of(answer.records[i])],
          shown |-> {}]

\* lines 443-463: the search button
SearchClick(keyword, answer) ==
    LET found == IF keyword # <<>> THEN search_clients(keyword, answer).results
                 ELSE client_results
    IN  /\ trigger' = "search"
        /\ client_results' = found
        /\ selected_client' = selected_after(found)
        /\ shown' = IF keyword # <<>> THEN search_clients(keyword, answer).shown ELSE {}
        /\ calls' = IF keyword # <<>>
                    THEN <<<<"GET records", keyword, <<>>, answer.status>>>>
                    ELSE <<>>
        /\ response_text' = None
        /\ json_str' = None
        /\ extracted_data' = after_section4(extracted_data)
        /\ UNCHANGED <<kintone_configured, Widgets, uploaded_file_path,
                       uploaded_file_name, text_content, Store>>

\* lines 460-463: the operator picks another client in the select box
SelectClient(i) ==
    /\ i \in 1..Len(client_results)
    /\ selected_client' = client_results[i]
    /\ QuietRun("widget")
    /\ UNCHANGED <<client_results, Widgets>>

\* lines 468-492: the operator changes the activity, staff and date widgets
ChangeForm(f) ==
    /\ form' = f
    /\ QuietRun("widget")
    /\ UNCHANGED <<Clients, contact_persons, uploaded_file, text_input>>

\* lines 508-523: the operator types a department and a name into row i
EditContact(i, dept, name) ==
    /\ i \in 1..Len(contact_persons)
    /\ contact_persons' = [contact_persons EXCEPT ![i] = [department |-> dept, name |-> name]]
    /\ QuietRun("widget")
    /\ UNCHANGED <<Clients, form, uploaded_file, text_input>>

\* a run that st.rerun() or st.stop() ends before section 4
CutRun(what, messages) ==
    /\ trigger' = what
    /\ shown' = messages
    /\ calls' = <<>>
    /\ response_text' = None
    /\ json_str' = None
    /\ UNCHANGED <<kintone_configured, Session, Store>>

\* lines 531-533: the add button
AddContact ==
    /\ Len(contact_persons) < MaxContacts
    /\ contact_persons' = Append(contact_persons, [department |-> <<>>, name |-> <<>>])
    /\ CutRun("add_contact", {})
    /\ UNCHANGED <<Clients, form, uploaded_file, text_input>>

\* lines 525-528: the delete button of row i
DeleteContact(i) ==
    /\ i \in 2..Len(contact_persons)
    /\ contact_persons' = SubSeq(contact_persons, 1, i - 1)
                           \o SubSeq(contact_persons, i + 1, Len(contact_persons))
    /\ CutRun("delete_contact", {})
    /\ UNCHANGED <<Clients, form, uploaded_file, text_input>>

\* lines 545-549: the file uploader
SetUpload(file) ==
    /\ uploaded_file' = file
    /\ QuietRun("widget")
    /\ UNCHANGED <<Clients, form, contact_persons, text_input>>

\* lines 559-563: the text memo
SetText(text) ==
    /\ text_input' = text
    /\ QuietRun("widget")
    /\ UNCHANGED <<Clients, form, contact_persons, uploaded_file>>

\* lines 629-659: what the run leaves when the extraction returned a record
extract_success(data, n) ==
    /\ extracted_data' = after_section4(reconcile(data, contact_persons, selected_client, form))
    /\ uploaded_file_path' = n.saved_file_path
    /\ uploaded_file_name' = IF uploaded_file # NoFile THEN uploaded_file.name ELSE None
    /\ text_content' = IF text_input # <<>> THEN text_input ELSE None
    /\ UNCHANGED Store

\* the message of a run whose extraction returned no record
extract_no_record_message(p) == IF p.reported THEN {"err_json"} ELSE {}

\* validation with the text memo tested as typed, not stripped
validation_unstripped(client, file, text) ==
    IF client = NoClient THEN "warn_no_client"
    ELSE IF file = NoFile /\ text = <<>> THEN "warn_no_input"
    ELSE "ok"

\* lines 576-582: the warning the validation stops the run with, "ok" when it passes
validation(client, file, text) ==
    IF client = NoClient THEN "warn_no_client"
    ELSE IF file = NoFile /\ strip(text) = <<>> THEN "warn_no_input"
    ELSE "ok"

\* lines 573-659: the extract button
ExtractClick(responses) ==
    /\ trigger' = "extract"
    /\ UNCHANGED <<kintone_configured, Clients, Widgets>>
    /\ IF validation(selected_client, uploaded_file, text_input) # "ok"
       THEN /\ shown' = {validation(selected_client, uploaded_file, text_input)}
            /\ calls' = <<>>
            /\ response_text' = None
            /\ json_str' = None
            /\ UNCHANGED <<Session, Store>>
       ELSE LET n == normalize(uploaded_file)
                req == extraction_request(n, text_input)
            IN  \E out \in HostOutcomes(req, responses) :
                    LET p == process(req, out)
                    IN  /\ calls' = n.calls \o p.calls
                        /\ response_text' = p.response
                        /\ json_str' = p.json_str
                        /\ IF p.raised \/ (truthy(p.value) /\ ~is_dict(p.value))
                           THEN /\ shown' = {"exception"}
                                /\ UNCHANGED <<Session, Store>>
                           ELSE IF truthy(p.value)
                           THEN /\ shown' = {"success_extract"}
                                /\ extract_success(p.value, n)
                           ELSE /\ shown' = extract_no_record_message(p)
                                /\ extracted_data' = after_section4(extracted_data)
                                /\ UNCHANGED <<uploaded_file_path, uploaded_file_name,
                                               text_content, Store>>

\* lines 686-710: the operator edits one of the four text areas
EditResult(key, text) ==
    /\ holds_record
    /\ extracted_data' = put(section4(extracted_data), key, text)
    /\ trigger' = "edit"
    /\ shown' = {}
    /\ calls' = <<>>
    /\ response_text' = None
    /\ json_str' = None
    /\ UNCHANGED <<kintone_configured, Clients, Widgets, uploaded_file_path,
                   uploaded_file_name, text_content, Store>>

\* session_after_submit with the session cleared whatever upload_to_kintone returned
session_after_submit_clearing(ok, data) ==
    [extracted_data |-> NoData, uploaded_file_path |-> None,
     uploaded_file_name |-> None, text_content |-> None]

\* lines 748-753: the session after upload_to_kintone returned ok or not
session_after_submit(ok, data) ==
    IF ok
    THEN [extracted_data |-> NoData, uploaded_file_path |-> None,
          uploaded_file_name |-> None, text_content |-> None]
    ELSE [extracted_data |-> data, uploaded_file_path |-> uploaded_file_path,
          uploaded_file_name |-> uploaded_file_name, text_content |-> text_content]

\* lines 720-753: the submit button
SubmitClick(up, post) ==
    /\ holds_record
    /\ submit_clicks < MaxSubmits
    /\ LET data == section4(extracted_data)
           att == attachments(kintone_configured, uploaded_file_path, uploaded_file_name,
                              text_content, up)
           sub == upload_to_kintone(kintone_configured, data,
                                    IF att.file_keys # <<>> THEN att.file_keys ELSE None,
                                    post)
       IN  /\ trigger' = "submit"
           /\ calls' = att.calls \o sub.calls
           /\ shown' = att.shown \cup sub.shown
           /\ response_text' = None
           /\ json_str' = None
           /\ extracted_data' = session_after_submit(sub.ok, data).extracted_data
           /\ uploaded_file_path' = session_after_submit(sub.ok, data).uploaded_file_path
           /\ uploaded_file_name' = session_after_submit(sub.ok, data).uploaded_file_name
           /\ text_content' = session_after_submit(sub.ok, data).text_content
           /\ kintone_rows' = kintone_rows + sub.rows
           /\ submit_clicks' = submit_clicks + 1
           /\ UNCHANGED <<kintone_configured, Clients, Widgets>>

UploadOutcomes == {"ok", "fail"}

SearchAnswers ==
    {[status |-> "ok", records |-> a] : a \in RemoteAnswers}
    \cup {[status |-> e, records |-> <<>>] : e \in {"http_error", "network_error"}}

\* The session from its start, with the activity, staff and date widgets and the
\* contact list left as they are drawn first.
Next ==
    \/ \E k \in {<<>>, <<"ABC">>},
          a \in {[status |-> "ok", records |-> <<RemoteClients[1]>>],
                 [status |-> "http_error", records |-> <<>>]} : SearchClick(k, a)
    \/ SelectClient(1)
    \/ \E f \in {NoFile, AudioFile, TextFile(<<"visited">>)} : SetUpload(f)
    \/ \E t \in {<<>>, <<"memo">>} : SetText(t)
    \/ ExtractClick({<<FENCE, JSON_TAG, "NL", "OBJ_FULL", "NL", FENCE>>, <<"OBJ_EMPTY">>,
                     <<"sorry">>})
    \/ \E t \in EditTexts : EditResult("meeting_summary", t)
    \/ \E u \in UploadOutcomes, r \in PostOutcomes : SubmitClick(u, r)

Spec == Init /\ [][Next]_vars

\* The start of a session of a deployment whose record store is configured.
InitConfigured == Init /\ kintone_configured

\* The inputs of an extraction in every combination, and every kind of answer.
NextExtract ==
    \/ SearchClick(<<"ABC">>, [status |-> "ok", records |-> RemoteClients])
    \/ \E i \in 1..2 : SelectClient(i)
    \/ \E f \in Uploads : SetUpload(f)
    \/ \E t \in Texts : SetText(t)
    \/ ExtractClick(Responses)

SpecExtract == InitConfigured /\ [][NextExtract]_vars

\* The state after a search that found both clients and a typed memo: InitConfigured,
\* SearchClick(<<"ABC">>, both clients), SetText(<<"memo">>).
InitReady ==
    /\ kintone_configured = TRUE
    /\ client_results = <<client_of(RemoteClients[1]), client_of(RemoteClients[2])>>
    /\ selected_client = client_of(RemoteClients[1])
    /\ form = [sales_activity |-> SALES_ACTIVITY_OPTIONS[1], staff |-> STAFF_OPTIONS[1],
               action_date |-> <<2026, 11, 1>>, next_date |-> <<2026, 11, 1>>,
               next_sales_activity |-> SALES_ACTIVITY_OPTIONS[1]]
    /\ contact_persons = <<[department |-> <<>>, name |-> <<>>]>>
    /\ uploaded_file = NoFile
    /\ text_input = <<"memo">>
    /\ extracted_data = NoData
    /\ uploaded_file_path = None
    /\ uploaded_file_name = None
    /\ text_content = None
    /\ trigger = "widget"
    /\ shown = {}
    /\ calls = <<>>
    /\ response_text = None
    /\ json_str = None
    /\ kintone_rows = 0
    /\ submit_clicks = 0

\* every text of at most n tokens over the alphabet
RECURSIVE TextsUpTo(_, _)
TextsUpTo(alphabet, n) ==
    IF n = 0 THEN {<<>>}
    ELSE LET shorter == TextsUpTo(alphabet, n - 1)
         IN  shorter \cup {Append(t, a) : t \in shorter, a \in alphabet}

RawAlphabet == {FENCE, JSON_TAG, "NL", "OBJ_FULL", "OBJ_PART", "sorry"}

\* every raw model output of at most MaxRawLen tokens
RawOutputs == TextsUpTo(RawAlphabet, MaxRawLen)

\* One extraction from the ready state, over every raw output.
NextRecover == trigger = "widget" /\ ExtractClick(RawOutputs)

SpecRecover == InitReady /\ [][NextRecover]_vars

ContactChoices ==
    {[department |-> <<>>, name |-> <<>>],
     [department |-> <<"soumu">>, name |-> <<"Arita">>],
     [department |-> <<"SP">>, name |-> <<"Suzuki", "SP">>],
     [department |-> <<"SP", "eigyo">>, name |-> <<"SP">>]}

\* The contact list in every shape, then an extraction.
NextReconcile ==
    \/ \E i \in 1..MaxContacts, c \in ContactChoices : EditContact(i, c.department, c.name)
    \/ AddContact
    \/ \E i \in 1..MaxContacts : DeleteContact(i)
    \/ ExtractClick({<<"OBJ_FULL">>, <<"OBJ_PART">>, <<"OBJ_NOSUMMARY">>})

SpecReconcile == InitReady /\ [][NextReconcile]_vars

\* The operator's metadata in every choice, then an extraction.
NextOperator ==
    \/ \E i \in 1..2 : SelectClient(i)
    \/ \E f \in FormChoices : ChangeForm(f)
    \/ ExtractClick({<<"OBJ_FULL">>, <<"OBJ_PART">>})

SpecOperator == InitReady /\ [][NextOperator]_vars

\* The client search over every keyword and every answer of the record store.
NextSearch ==
    \/ \E k \in Keywords, a \in SearchAnswers : SearchClick(k, a)
    \/ \E i \in 1..2 : SelectClient(i)
    \/ \E t \in Texts : SetText(t)

SpecSearch == Init /\ [][NextSearch]_vars

\* Extractions that lack recognized fields and carry others, with and without a file,
\* then the submit.
NextPayload ==
    \/ ExtractClick({<<"OBJ_PART">>, <<"OBJ_NOSUMMARY">>})
    \/ \E f \in {NoFile, AudioFile} : SetUpload(f)
    \/ \E u \in UploadOutcomes, r \in PostOutcomes : SubmitClick(u, r)

SpecPayload == InitReady /\ [][NextPayload]_vars

\* A record is extracted, then the operator changes everything above it, edits the
\* result and submits.
NextSnapshot ==
    \/ ~holds_record /\ ExtractClick({<<"OBJ_PART">>})
    \/ SearchClick(<<"XYZ">>, [status |-> "ok", records |-> <<RemoteClients[2]>>])
    \/ \E i \in 1..2 : SelectClient(i)
    \/ \E f \in FormChoices : ChangeForm(f)
    \/ EditContact(1, <<"soumu">>, <<"Arita">>)
    \/ AddContact
    \/ \E i \in 1..MaxContacts : DeleteContact(i)
    \/ \E t \in EditTexts : EditResult("meeting_summary", t)
    \/ \E r \in {"ok", "http_error"} : SubmitClick("ok", r)

SpecSnapshot == InitReady /\ [][NextSnapshot]_vars

\* what the operator can type into a text area: letters, whitespace, control characters
TypedAlphabet == {"a", "SP", "NL", "TAB", "NUL", "VT"}

\* every text of at most MaxTextLen characters
TypedTexts == TextsUpTo(TypedAlphabet, MaxTextLen)

\* One extraction, one edit of the meeting summary over every typed text, one submit.
NextSanitize ==
    \/ trigger = "widget" /\ ExtractClick({<<"OBJ_FULL">>})
    \/ trigger = "extract" /\ \E t \in TypedTexts : EditResult("meeting_summary", t)
    \/ trigger = "edit" /\ \E r \in PostOutcomes : SubmitClick("ok", r)

SpecSanitize == InitReady /\ [][NextSanitize]_vars

\* ------------------------------------------------------------------ properties

\* the calls of one run that are op
calls_to(cs, op) == {i \in 1..Len(cs) : cs[i][1] = op}

\* how the POST /record of one run ended, "none" when the run made none
post_result(cs) ==
    IF calls_to(cs, "POST record") = {} THEN "none"
    ELSE cs[CHOOSE i \in calls_to(cs, "POST record") : TRUE][4]

\* a POST /file of the run failed
upload_failed(cs) == \E i \in calls_to(cs, "POST file") : cs[i][4] = "fail"

PostFailures == {"http_error", "network_error", "lost_answer"}

\* C1: a submit whose record POST succeeds clears the held record (the extracted data,
\* the saved attachment path, the attachment name and the text memo); a submit whose
\* record POST fails with a non-2xx answer or with no answer leaves all four exactly as
\* they were and shows an error and no success message.
C1_SubmitClearsOnSuccessKeepsOnFailure ==
    [][trigger' = "submit" =>
        /\ post_result(calls') = "ok" =>
              /\ extracted_data' = NoData
              /\ uploaded_file_path' = None
              /\ uploaded_file_name' = None
              /\ text_content' = None
              /\ "success_submit" \in shown'
        /\ post_result(calls') \in PostFailures =>
              /\ extracted_data' = extracted_data
              /\ uploaded_file_path' = uploaded_file_path
              /\ uploaded_file_name' = uploaded_file_name
              /\ text_content' = text_content
              /\ shown' \cap Errors # {}
              /\ shown' \cap Successes = {}]_vars

\* C1 witness: a submit was answered non-2xx and the record with its attachment is
\* still held.
C1_Witness ==
    /\ trigger = "submit"
    /\ post_result(calls) = "http_error"
    /\ holds_record
    /\ uploaded_file_path # None

C3_AtMostOnePostPerSubmit ==
    [][/\ Cardinality(calls_to(calls', "POST record")) <= 1
       /\ calls_to(calls', "POST record") # {} =>
              trigger' = "submit" /\ submit_clicks' = submit_clicks + 1
       /\ kintone_rows' \in {kintone_rows, kintone_rows + 1}
       /\ kintone_rows' # kintone_rows =>
              trigger' = "submit" /\ submit_clicks' = submit_clicks + 1
       /\ kintone_rows' <= submit_clicks']_vars

\* C3 witness: the record was submitted twice by two triggers (the first answer was
\* lost) and the store holds two rows.
C3_Witness ==
    /\ trigger = "submit"
    /\ submit_clicks = 2
    /\ kintone_rows = 2

\* a text of nothing but whitespace
blank(text) == \A i \in 1..Len(text) : text[i] \in Whitespace

ProcessFns == {"process_audio_only", "process_text_only", "process_audio_and_text"}

\* C4: an extract trigger with no client selected, or with no uploaded file and an
\* empty or blank text memo, shows a warning and makes no call at all (no file saved,
\* no media registered, no generation) and leaves the held record as it was.
C4_InvalidInputStopsBeforeAnyCall ==
    [][(/\ trigger' = "extract"
        /\ \/ selected_client = NoClient
           \/ uploaded_file = NoFile /\ blank(text_input)) =>
        /\ shown' # {}
        /\ shown' \subseteq Warnings
        /\ calls' = <<>>
        /\ extracted_data' = extracted_data
        /\ uploaded_file_path' = uploaded_file_path
        /\ uploaded_file_name' = uploaded_file_name
        /\ text_content' = text_content]_vars

\* C4 witness: a record is held, the operator then left only a blank memo and asked
\* for an extraction, and the run stopped at the warning.
C4_Witness ==
    /\ trigger = "extract"
    /\ shown = {"warn_no_input"}
    /\ text_input = <<"SP">>
    /\ uploaded_file = NoFile
    /\ holds_record

is_audio_upload(file) == file # NoFile /\ file.name = AudioFile.name

is_text_upload(file) == file # NoFile /\ file.name = TextFile(<<>>).name

\* the process_* function C5 expects for the inputs
expected_variant(file, text) ==
    IF is_audio_upload(file) /\ ~blank(text) THEN "process_audio_and_text"
    ELSE IF is_audio_upload(file) THEN "process_audio_only"
    ELSE "process_text_only"

\* the text C5 expects a text-only request to carry
expected_text(file, text) ==
    IF is_text_upload(file) /\ file.content # <<>> /\ text # <<>>
    THEN file.content \o MEMO_MARK \o text
    ELSE IF is_text_upload(file) /\ file.content # <<>> THEN file.content
    ELSE text

\* C5: whenever a client is selected and the audio, the text file or the text memo is
\* not blank, the run issues exactly one extraction request, of the variant the inputs
\* call for: audio and text when an audio file and a non-blank memo are present, audio
\* only when the memo is empty or blank, text only otherwise, with the text file's
\* content before the memo and the marker between them, and never on the audio path.
C5_NormalizerSelectsVariant ==
    (/\ trigger = "extract"
     /\ selected_client # NoClient
     /\ \/ is_audio_upload(uploaded_file)
        \/ ~blank(text_input)
        \/ is_text_upload(uploaded_file) /\ ~blank(uploaded_file.content)) =>
        /\ Cardinality({i \in 1..Len(calls) : calls[i][1] \in ProcessFns}) = 1
        /\ \A i \in 1..Len(calls) : calls[i][1] \in ProcessFns =>
              /\ calls[i][1] = expected_variant(uploaded_file, text_input)
              /\ calls[i][1] = "process_text_only" =>
                    calls[i][3] = expected_text(uploaded_file, text_input)
        /\ is_text_upload(uploaded_file) => calls_to(calls, "genai.upload_file") = {}

\* C6: every extract trigger that ends without a newly held record shows a warning or
\* an error, and every submit trigger that creates no row shows an error.
C6_EveryFailureIsSignalled ==
    /\ (trigger = "extract" /\ "success_extract" \notin shown) =>
           shown \cap (Warnings \cup Errors) # {}
    /\ (trigger = "submit" /\ post_result(calls) \notin {"ok", "lost_answer"}) =>
           shown \cap Errors # {}

\* the positions of the fence markers of a text, and of those tagged json
fences(text) == {i \in 1..Len(text) : text[i] = FENCE}

tagged_fences(text) ==
    {i \in fences(text) : i + 1 <= Len(text) /\ text[i + 1] = JSON_TAG}

least(S) == CHOOSE i \in S : \A j \in S : i <= j

\* the text without the whitespace at its two ends
trimmed(text) ==
    LET solid == {i \in 1..Len(text) : text[i] \notin Whitespace}
    IN  IF solid = {} THEN <<>>
        ELSE SubSeq(text, least(solid), CHOOSE i \in solid : \A j \in solid : j <= i)

\* the content of the block that opens with the marker of `width` tokens at position
\* `open`: what follows the marker, up to the next fence marker or the end of the text
block_content(text, open, width) ==
    LET closers == {i \in fences(text) : i >= open + width}
        last == IF closers = {} THEN Len(text) ELSE least(closers) - 1
    IN  trimmed(SubSeq(text, open + width, last))

\* the content C8 names: of the first block tagged json, else of the first block of
\* any kind, else the whole trimmed text
selected_content(text) ==
    IF tagged_fences(text) # {} THEN block_content(text, least(tagged_fences(text)), 2)
    ELSE IF fences(text) # {} THEN block_content(text, least(fences(text)), 1)
    ELSE trimmed(text)

\* a text that is one JSON document
is_document(text) == Len(text) = 1 /\ text[1] \in {"OBJ_FULL", "OBJ_PART"}

\* a raw output with an opening fence marker that no marker closes
unclosed_fence(text) == Cardinality(fences(text)) % 2 = 1

\* the run called the extraction host and got a raw output back
got_raw_output == trigger = "extract" /\ response_text # None

\* C7 as claimed: every raw output whose selected content fails to parse, and every
\* raw output with an opening fence marker and no closing one, is reported as
\* malformed and never accepted as a record.
C7_UnclosedFenceIsMalformed ==
    (/\ got_raw_output
     /\ \/ ~is_document(selected_content(response_text))
        \/ unclosed_fence(response_text)) =>
        /\ "err_json" \in shown
        /\ "success_extract" \notin shown
        /\ ~holds_record

\* C7 amended: a raw output is reported as malformed, and no record is accepted from
\* it, exactly when its selected content fails to parse; a missing closing marker is
\* no failure in itself, the selected content then runs to the end of the text, and
\* the output is accepted when that content parses.
C7_MalformedIffContentFailsToParse ==
    got_raw_output =>
        /\ ~is_document(selected_content(response_text)) =>
              /\ "err_json" \in shown
              /\ "success_extract" \notin shown
              /\ ~holds_record
        /\ is_document(selected_content(response_text)) =>
              /\ "err_json" \notin shown
              /\ "success_extract" \in shown
              /\ holds_record

\* C7 witness: an opening marker, no closing one, content that does not parse, reported.
C7_Witness ==
    /\ got_raw_output
    /\ response_text = <<FENCE, JSON_TAG, "sorry", "NL">>
    /\ "err_json" \in shown
    /\ ~holds_record

\* the ways to read a text as prose, one fenced block tagged json, prose: the
\* positions of its only two fence markers, the first of them tagged
well_formed_splits(text) ==
    {d \in [open : 1..Len(text), close : 1..Len(text)] :
        /\ fences(text) = {d.open, d.close}
        /\ d.open + 1 < d.close
        /\ text[d.open + 1] = JSON_TAG}

accepted_record ==
    /\ got_raw_output
    /\ "success_extract" \in shown
    /\ Len(response_text) = 1

\* the narrative N the extraction produced, empty when it produced none
extracted_narrative == get(JsonValue(response_text[1]), "meeting_summary", <<>>)

\* what one contact contributes to the prefix, department and name without the
\* whitespace around them: nothing, or one line
contribution(c) ==
    IF ~blank(c.name) /\ ~blank(c.department)
    THEN trimmed(c.department) \o <<"no">> \o trimmed(c.name) \o <<"sama">>
    ELSE IF ~blank(c.name) THEN trimmed(c.name) \o <<"sama">>
    ELSE <<>>

\* the prefix P of the contacts from position i on, joined in list order
RECURSIVE prefix_from(_, _)
prefix_from(contacts, i) ==
    IF i > Len(contacts) THEN <<>>
    ELSE LET rest == prefix_from(contacts, i + 1)
         IN  IF blank(contacts[i].name) THEN rest
             ELSE IF rest = <<>> THEN contribution(contacts[i])
             ELSE contribution(contacts[i]) \o <<"touten">> \o rest

\* C9: after reconciliation the held narrative is the prefix P built from the contact
\* list (department-no-name-sama for an entry with both, name-sama for a name-only
\* entry, nothing for any other entry, joined in list order), a newline, then the whole
\* extracted narrative N; and it is N unchanged when no entry contributes.
C9_ContactPrefixBeforeNarrative ==
    accepted_record =>
        extracted_data["meeting_summary"] =
            IF prefix_from(contact_persons, 1) # <<>>
            THEN prefix_from(contact_persons, 1) \o <<"NL">> \o extracted_narrative
            ELSE extracted_narrative

\* C9 witness: a contact with department and name, then a name-only contact, and the
\* record accepted with both lines before the narrative.
C9_Witness ==
    /\ accepted_record
    /\ response_text = <<"OBJ_FULL">>
    /\ contact_persons = <<[department |-> <<"soumu">>, name |-> <<"Arita">>],
                           [department |-> <<"SP">>, name |-> <<"Suzuki", "SP">>]>>
    /\ extracted_data["meeting_summary"] =
           <<"soumu", "no", "Arita", "sama", "touten", "Suzuki", "sama", "NL",
             "quote", "SP", "request">>

\* the text of a date of the form, year-month-day
date_text(d) ==
    CASE d = <<2026, 11, 1>> -> <<"2", "0", "2", "6", "-", "1", "1", "-", "0", "1">>
      [] d = <<2026, 3, 5>> -> <<"2", "0", "2", "6", "-", "0", "3", "-", "0", "5">>

\* C10: after reconciliation each of the six operator-provided keys of the held record
\* equals the operator's value, also when the extraction produced the same key with
\* another value.
C10_OperatorFieldsOverride ==
    accepted_record =>
        /\ extracted_data["client_id"] = selected_client.id
        /\ extracted_data["sales_activity"] = form.sales_activity
        /\ extracted_data["staff"] = form.staff
        /\ extracted_data["action_date"] = date_text(form.action_date)
        /\ extracted_data["next_date"] = date_text(form.next_date)
        /\ extracted_data["next_sales_activity"] = form.next_sales_activity

\* C10 witness: the extraction produced its own staff, client id and action date, the
\* operator chose others, and the held record carries the operator's.
C10_Witness ==
    /\ accepted_record
    /\ response_text = <<"OBJ_PART">>
    /\ "staff" \in DOMAIN JsonValue("OBJ_PART")
    /\ form.staff = <<"Sugiyama">>
    /\ form.action_date = <<2026, 3, 5>>
    /\ selected_client.id = <<"2">>
    /\ extracted_data["staff"] = <<"Sugiyama">>
    /\ extracted_data["client_id"] = <<"2">>
    /\ extracted_data["action_date"] = <<"2", "0", "2", "6", "-", "0", "3", "-", "0", "5">>

\* the payload record of the record POST of the run
posted(cs) == cs[CHOOSE i \in calls_to(cs, "POST record") : TRUE][2]

\* the newlines and tabs of a text, in their order
newlines_and_tabs(text) == SelectSeq(text, LAMBDA c : c \in {"NL", "TAB"})

\* out is text without its control characters and without the whitespace at its ends:
\* outside some stretch lo..hi of the text there is nothing but whitespace and control
\* characters, out is the stretch without its control characters, and out neither
\* starts nor ends with whitespace
cleaned_and_trimmed(text, out) ==
    \E lo \in 1..(Len(text) + 1), hi \in 0..Len(text) :
        /\ \A i \in 1..Len(text) :
              (i < lo \/ i > hi) => text[i] \in Whitespace \cup ControlChars
        /\ out = SelectSeq(SubSeq(text, lo, hi), LAMBDA c : c \notin ControlChars)
        /\ out # <<>> => out[1] \notin Whitespace /\ out[Len(out)] \notin Whitespace

\* C11 as claimed: every newline and tab of the text given to sanitize is in its
\* output, in the same order, and no listed control character is.
C11_SanitizeKeepsEveryNewlineAndTab ==
    [][(trigger' = "submit" /\ calls_to(calls', "POST record") # {}) =>
        /\ newlines_and_tabs(posted(calls')["meeting_summary"]) =
               newlines_and_tabs(extracted_data["meeting_summary"])
        /\ \A i \in 1..Len(posted(calls')["meeting_summary"]) :
               posted(calls')["meeting_summary"][i] \notin ControlChars]_vars

\* C11 amended: the output of sanitize is its input without the listed control
\* characters and without the whitespace, newlines and tabs included, that is then at
\* its two ends; every newline and tab between two kept characters stays, in order.
C11_SanitizeKeepsInnerNewlinesAndTabs ==
    [][(trigger' = "submit" /\ calls_to(calls', "POST record") # {}) =>
        cleaned_and_trimmed(extracted_data["meeting_summary"],
                            posted(calls')["meeting_summary"])]_vars

\* C11 witness: a summary with a newline at its start, a control character and a tab
\* inside was submitted; the POST failed, so the summary is still held beside the
\* payload that was sent.
C11_Witness ==
    /\ trigger = "submit"
    /\ post_result(calls) = "http_error"
    /\ extracted_data["meeting_summary"] = <<"NL", "a", "NUL", "TAB">>
    /\ posted(calls)["meeting_summary"] = <<"a">>

\* C12: a client search with an empty or whitespace-only keyword makes no network call
\* to the record store and leaves no client found: no GET of a run carries a blank
\* keyword, and a search run without a GET shows no client.
C12_BlankKeywordMakesNoCall ==
    trigger = "search" =>
        /\ \A i \in calls_to(calls, "GET records") : ~blank(calls[i][2])
        /\ calls_to(calls, "GET records") = {} => client_results = <<>>

\* the field codes of the destination: the ten of the record and the attachment field
DestinationCodes ==
    {"client_id", "sales_activity", "action_date", "staff", "meeting_summary",
     "current_issues", "competitor_info", "next_proposal", "next_date",
     "next_sales_activity", "attachment_0"}

\* the recognized extracted fields and the operator-provided fields
RecognizedKeys ==
    {"meeting_summary", "current_issues", "competitor_info", "next_proposal",
     "client_id", "sales_activity", "staff", "action_date", "next_date",
     "next_sales_activity"}

\* the payload of a submit has the fixed field codes and no other, and carries each
\* narrative field of the record held before the submit, the empty text for an empty one
payload_of_fixed_codes ==
    [][(trigger' = "submit" /\ calls_to(calls', "POST record") # {}) =>
        /\ DOMAIN posted(calls') \subseteq DestinationCodes
        /\ DestinationCodes \ {"attachment_0"} \subseteq DOMAIN posted(calls')
        /\ \A k \in {"meeting_summary", "current_issues", "competitor_info",
                     "next_proposal"} :
              cleaned_and_trimmed(get(extracted_data, k, <<>>), posted(calls')[k])]_vars

\* C13 as claimed: after reconciliation the held record has no key other than the
\* recognized extracted fields and the operator-provided fields, and the payload has
\* only the fixed destination field codes, a missing recognized field sent empty.
C13_UnrecognizedKeysDroppedAtReconciliation ==
    /\ [](holds_record => DOMAIN extracted_data \subseteq RecognizedKeys)
    /\ payload_of_fixed_codes

\* C13 amended: reconciliation keeps every key of the model output in the held record,
\* the unrecognized ones included, and adds only the six operator-provided keys and an
\* empty text for each missing narrative field; the unrecognized keys are dropped when
\* the payload is built, which has only the fixed destination field codes.
C13_UnrecognizedKeysDroppedInPayload ==
    /\ [](accepted_record =>
            /\ DOMAIN extracted_data =
                   DOMAIN JsonValue(response_text[1]) \cup RecognizedKeys
            /\ \A k \in DOMAIN extracted_data \ RecognizedKeys :
                   extracted_data[k] = JsonValue(response_text[1])[k]
            /\ \A k \in {"current_issues", "competitor_info", "next_proposal"} :
                   k \notin DOMAIN JsonValue(response_text[1]) => extracted_data[k] = <<>>)
    /\ payload_of_fixed_codes

\* C13 witness: the held record carried a key nobody asked for and lacked two narrative
\* fields; the submit failed, so it is still held beside the payload, which has the
\* fixed codes only and the two fields empty.
C13_Witness ==
    /\ trigger = "submit"
    /\ post_result(calls) = "http_error"
    /\ "date" \in DOMAIN extracted_data
    /\ "date" \notin DOMAIN posted(calls)
    /\ posted(calls)["current_issues"] = <<>>
    /\ posted(calls)["competitor_info"] = <<>>
    /\ "attachment_0" \in DOMAIN posted(calls)

\* the six metadata fields of a held record
MetadataKeys ==
    {"client_id", "sales_activity", "staff", "action_date", "next_date",
     "next_sales_activity"}

\* the user code the destination knows a staff member by
user_code(staff) ==
    CASE staff = <<"Mizuno">> -> <<"mizuno.k">>
      [] staff = <<"Sugiyama">> -> <<"sugiyama.t">>

\* C14: while a record is held, no run other than a new extraction changes its six
\* metadata fields, whatever the operator does to the client search and selection, the
\* form, the contact list and the result; a submit sends the held metadata, not the
\* widgets' values at the time of the submit.
C14_MetadataIsSnapshotOfExtraction ==
    [][(holds_record /\ trigger' # "extract") =>
        /\ truthy(extracted_data') =>
              \A k \in MetadataKeys : extracted_data'[k] = extracted_data[k]
        /\ (trigger' = "submit" /\ calls_to(calls', "POST record") # {}) =>
              /\ \A k \in MetadataKeys \ {"staff"} :
                    posted(calls')[k] = extracted_data[k]
              /\ posted(calls')["staff"] = <<user_code(extracted_data["staff"])>>]_vars

\* C14 witness: after the extraction the operator searched and selected another client,
\* chose another staff member and date, added a contact and edited the summary; the
\* submitted row carries the client and metadata of the extraction.
C14_Witness ==
    /\ trigger = "submit"
    /\ post_result(calls) = "ok"
    /\ selected_client.id = <<"2">>
    /\ form.staff = <<"Sugiyama">>
    /\ form.action_date = <<2026, 3, 5>>
    /\ Len(contact_persons) = 2
    /\ posted(calls)["client_id"] = <<"K", "1">>
    /\ posted(calls)["staff"] = <<<<"mizuno.k">>>>
    /\ posted(calls)["action_date"] = <<"2", "0", "2", "6", "-", "1", "1", "-", "0", "1">>
    /\ posted(calls)["meeting_summary"] = <<"edited">>

====
